---- MODULE Spec2Model ----
(***************************************************************************)
(* Karaoke pipeline, stage 3 (src/03_render_video.py): line segmentation,  *)
(* active-line selection, per-word colouring and the frame loop that pipes *)
(* raw frames into the encoder.                                            *)
(*                                                                         *)
(* Time is counted in ticks of 1/(10*FPS) s = 1/300 s, so that the frame   *)
(* time fn / FPS, the 0.1 s grace and the 0.01 s minimum word duration are *)
(* all exact integers.  A text is a sequence of one-character strings.     *)
(***************************************************************************)
EXTENDS Integers, Sequences, FiniteSets, TLC

VARIABLES
    \* ---- segment_lines, run one loop iteration at a time (SegSpec) ----
    seg_words,      \* the `words` argument
    max_chars,      \* the `max_chars` argument
    max_words,      \* the `max_words` argument
    seg_i,          \* number of input words consumed by the for loop
    seg,            \* the locals [lines, current, chars]
    seg_pc,         \* "idle" | "loop" | "returned"
    seg_result,     \* the returned list of lines
    \* ---- __main__ and render_video (Spec) ----
    pc,             \* position in __main__ / render_video
    files,          \* which of words.json, song.mp3, no_vocals.wav exist
    words,          \* the content of words.json
    audio_src,      \* audio file of the current render_video call
    duration,       \* get_audio_duration(audio_file), in ticks
    total_frames,   \* int(duration * FPS)
    lines,          \* segment_lines(words)
    fn,             \* loop variable of the frame loop
    proc,           \* the encoder subprocess and its stdin pipe
    written,        \* frames accepted by proc.stdin.write, in order
    error,          \* exception that left the program, or "none"
    \* ---- one pass of the frame loop body at an arbitrary t (FrameSpec) ----
    q_words,        \* the words the timeline is segmented from
    q_lines,        \* the timeline
    q_t,            \* the render time, in ticks
    q_sel,          \* result of get_active_line_for_time(q_lines, q_t)
    q_frame,        \* what the loop body drew for q_t
    q_pc,           \* "idle" | "select" | "compose" | "done"
    \* ---- the progressive fill of one active word as t advances (WipeSpec) ----
    w_word,         \* the active word
    w_widths,       \* textbbox width of every character of its text plus " "
    w_pw,           \* textbbox width of the whole text plus " "
    w_t,            \* the render time, in ticks
    w_drawn,        \* what was drawn for the word at each t so far
    w_pc            \* "idle" | "wipe" | "sung"

segVars == <<seg_words, max_chars, max_words, seg_i, seg, seg_pc, seg_result>>
renderVars == <<pc, files, words, audio_src, duration, total_frames, lines, fn,
                proc, written, error>>
frameVars == <<q_words, q_lines, q_t, q_sel, q_frame, q_pc>>
wipeVars == <<w_word, w_widths, w_pw, w_t, w_drawn, w_pc>>
vars == <<segVars, renderVars, frameVars, wipeVars>>

---------------------------------------------------------------------------
(* Program constants *)

FPS == 30
MAX_LINES == 4
DEFAULT_MAX_CHARS == 32
DEFAULT_MAX_WORDS == 6
TicksPerSec == 10 * FPS
EPSILON == TicksPerSec \div 10
MIN_WORD_DURATION == TicksPerSec \div 100
COUNTDOWN_MIN == (3 * TicksPerSec) \div 10
COUNTDOWN_SECONDS == 2 * TicksPerSec

(* Bounds of the model *)

MaxSegWords == 4
MaxCharsBound == 5
MaxWordsBound == 3
MaxWords == 3
MaxDuration == 80
MaxTimedWords == 3
MaxT == 105
LongTail == 2
MaxCharWidth == 3

---------------------------------------------------------------------------
(* Texts and str.strip() *)

Whitespace == {" ", "\t"}

RECURSIVE lstrip(_)
lstrip(s) ==
    IF s = <<>> THEN <<>>
    ELSE IF Head(s) \in Whitespace THEN lstrip(Tail(s)) ELSE s

RECURSIVE rstrip(_)
rstrip(s) ==
    IF s = <<>> THEN <<>>
    ELSE IF s[Len(s)] \in Whitespace THEN rstrip(SubSeq(s, 1, Len(s) - 1)) ELSE s

strip(s) == rstrip(lstrip(s))

Word(text, start, end) == [word |-> text, start |-> start, end |-> end]

RECURSIVE SeqsUpTo(_, _)
SeqsUpTo(S, n) ==
    IF n = 0 THEN {<<>>}
    ELSE LET shorter == SeqsUpTo(S, n - 1)
         IN shorter \cup {Append(q, x) : q \in {r \in shorter : Len(r) = n - 1}, x \in S}

---------------------------------------------------------------------------
(* segment_lines *)

SegStart == [lines |-> <<>>, current |-> <<>>, chars |-> 0]

\* the close test without the word-count limit
SegCloseNoWordLimit(s, projected, mc, mw) ==
    s.current # <<>> /\ projected > mc

\* the close test with the character limit off by one
SegCloseOffByOne(s, projected, mc, mw) ==
    s.current # <<>> /\ (projected > mc + 1 \/ Len(s.current) >= mw)

\* line 80
SegClose(s, projected, mc, mw) ==
    s.current # <<>> /\ (projected > mc \/ Len(s.current) >= mw)

\* an iteration that forgets lines.append(current) when it closes a line
SegStepDropsLine(s, word, mc, mw) ==
    LET wt == strip(word.word)
        projected == s.chars + Len(wt) + (IF s.current # <<>> THEN 1 ELSE 0)
    IN  IF wt = <<>> THEN s
        ELSE IF SegClose(s, projected, mc, mw)
             THEN [lines |-> s.lines, current |-> <<word>>, chars |-> Len(wt)]
             ELSE [lines |-> s.lines, current |-> Append(s.current, word),
                   chars |-> projected]

\* One iteration of the for loop (lines 75-85).
SegStep(s, word, mc, mw) ==
    LET wt == strip(word.word)
        projected == s.chars + Len(wt) + (IF s.current # <<>> THEN 1 ELSE 0)
    IN  IF wt = <<>> THEN s
        ELSE IF SegClose(s, projected, mc, mw)
             THEN [lines |-> Append(s.lines, s.current), current |-> <<word>>,
                   chars |-> Len(wt)]
             ELSE [lines |-> s.lines, current |-> Append(s.current, word),
                   chars |-> projected]

\* Lines 86-88.
SegFinish(s) == IF s.current # <<>> THEN Append(s.lines, s.current) ELSE s.lines

RECURSIVE SegFold(_, _, _, _)
SegFold(s, ws, mc, mw) ==
    IF ws = <<>> THEN s ELSE SegFold(SegStep(s, Head(ws), mc, mw), Tail(ws), mc, mw)

segment_lines(ws, mc, mw) == SegFinish(SegFold(SegStart, ws, mc, mw))

---------------------------------------------------------------------------
(* get_active_line_for_time *)

\* Python's None, a value that is no line index
None == 0 - 1

NoSelection == [line_idx |-> None, is_silence |-> FALSE, seconds_to_next |-> 0]

\* lines[idx], idx counted from 0 as in the source
LineAt(ls, idx) == ls[idx + 1]

flat_start(line) == line[1].start
flat_end(line) == line[Len(line)].end

\* the span test without its lower end
SpanContainsNoStartTest(line, t) == t <= flat_end(line) + EPSILON

\* the span test with the 0.5 s grace of the paired layout
SpanContainsPairedGrace(line, t) ==
    flat_start(line) <= t /\ t <= flat_end(line) + 5 * EPSILON

\* line 201
SpanContains(line, t) == flat_start(line) <= t /\ t <= flat_end(line) + EPSILON

\* the scan for the active line keeping the last match instead of the first
RECURSIVE LastContaining(_, _, _)
LastContaining(ls, t, li) ==
    IF li >= Len(ls) THEN None
    ELSE LET later == LastContaining(ls, t, li + 1)
         IN  IF later # None THEN later
             ELSE IF SpanContains(LineAt(ls, li), t) THEN li ELSE None

\* lines 198-202: index of the first line whose span contains t, from li on
RECURSIVE FirstContaining(_, _, _)
FirstContaining(ls, t, li) ==
    IF li >= Len(ls) THEN None
    ELSE IF SpanContains(LineAt(ls, li), t) THEN li
         ELSE FirstContaining(ls, t, li + 1)

\* the scan for the next line keeping the last match instead of the first
RECURSIVE LastStartingAfter(_, _, _)
LastStartingAfter(ls, t, li) ==
    IF li >= Len(ls) THEN None
    ELSE LET later == LastStartingAfter(ls, t, li + 1)
         IN  IF later # None THEN later
             ELSE IF flat_start(LineAt(ls, li)) > t THEN li ELSE None

\* lines 204-206: index of the first line that starts after t, from li on
RECURSIVE FirstStartingAfter(_, _, _)
FirstStartingAfter(ls, t, li) ==
    IF li >= Len(ls) THEN None
    ELSE IF flat_start(LineAt(ls, li)) > t THEN li
         ELSE FirstStartingAfter(ls, t, li + 1)

get_active_line_for_time(ls, t) ==
    LET active == FirstContaining(ls, t, 0)
        next == FirstStartingAfter(ls, t, 0)
    IN  IF active # None
        THEN [line_idx |-> active, is_silence |-> FALSE, seconds_to_next |-> 0]
        ELSE IF next # None
             THEN [line_idx |-> None, is_silence |-> TRUE,
                   seconds_to_next |-> flat_start(LineAt(ls, next)) - t]
             ELSE [line_idx |-> None, is_silence |-> TRUE, seconds_to_next |-> 0]

---------------------------------------------------------------------------
(* render_frame: which lines are shown and the colour of every word.  A    *)
(* colour is the name of the source's constant; the progressive fill is    *)
(* drawn in COLOR_ACTIVE over COLOR_INACTIVE up to frac = num / den.       *)

Min(a, b) == IF a <= b THEN a ELSE b
Max(a, b) == IF a >= b THEN a ELSE b

Paint(color) == [color |-> color, num |-> 0, den |-> 1]

\* the word colouring with "end < t" for "end <= t"
ActiveWordPaintStrictEnd(w, t) ==
    IF w.end < t THEN Paint("COLOR_SUNG")
    ELSE IF w.start <= t /\ t < w.end
         THEN LET den == Max(w.end - w.start, MIN_WORD_DURATION)
              IN  [color |-> "COLOR_ACTIVE", num |-> Min(t - w.start, den), den |-> den]
         ELSE Paint("COLOR_INACTIVE")

\* lines 166-192: a word of the active line
ActiveWordPaint(w, t) ==
    IF w.end <= t THEN Paint("COLOR_SUNG")
    ELSE IF w.start <= t /\ t < w.end
         THEN LET den == Max(w.end - w.start, MIN_WORD_DURATION)
              IN  [color |-> "COLOR_ACTIVE", num |-> Min(t - w.start, den), den |-> den]
         ELSE Paint("COLOR_INACTIVE")

\* lines 153-193: the words of the shown line line_idx
LinePaint(line, line_idx, active_line_idx, t) ==
    [k \in 1..Len(line) |->
        IF active_line_idx = None THEN Paint("COLOR_UPCOMING")
        ELSE IF line_idx < active_line_idx THEN Paint("COLOR_SUNG")
        ELSE IF line_idx > active_line_idx THEN Paint("COLOR_UPCOMING")
        ELSE ActiveWordPaint(line[k], t)]

\* the window with half taken for the whole visible count
WindowNotHalved(ls, active_line_idx) ==
    LET num_visible == Min(MAX_LINES, Len(ls))
    IN  IF active_line_idx = None
        THEN [start_idx |-> 0, end_idx |-> num_visible]
        ELSE LET start0 == Max(0, active_line_idx - num_visible)
                 end0 == start0 + num_visible
             IN  IF end0 > Len(ls)
                 THEN [start_idx |-> Max(0, Len(ls) - num_visible), end_idx |-> Len(ls)]
                 ELSE [start_idx |-> start0, end_idx |-> end0]

\* lines 119-136: [start_idx, end_idx) of the shown lines
Window(ls, active_line_idx) ==
    LET num_visible == Min(MAX_LINES, Len(ls))
    IN  IF active_line_idx = None
        THEN [start_idx |-> 0, end_idx |-> num_visible]
        ELSE LET half == num_visible \div 2
                 start0 == Max(0, active_line_idx - half)
                 end0 == start0 + num_visible
             IN  IF end0 > Len(ls)
                 THEN [start_idx |-> Max(0, Len(ls) - num_visible), end_idx |-> Len(ls)]
                 ELSE [start_idx |-> start0, end_idx |-> end0]

render_frame(ls, active_line_idx, t) ==
    LET win == Window(ls, active_line_idx)
    IN  [start_idx |-> win.start_idx,
         show_lines |->
            [li \in 1..(win.end_idx - win.start_idx) |->
                LET line_idx == win.start_idx + li - 1
                IN  [line_idx |-> line_idx,
                     paint |-> LinePaint(LineAt(ls, line_idx), line_idx,
                                         active_line_idx, t)]]]

\* the fill running from the full word down to nothing
FillPxBackwards(pw, num, den) == (pw * (den - num)) \div den

\* line 173: fill_px = int(pw * frac)
FillPx(pw, num, den) == (pw * num) \div den

\* lines 182, 190: cx - x before character k
RECURSIVE CharOffset(_, _)
CharOffset(widths, k) ==
    IF k <= 1 THEN 0 ELSE CharOffset(widths, k - 1) + widths[k - 1]

\* lines 183-190: the colour of every character of the active word
CharColors(widths, fill_px) ==
    [k \in 1..Len(widths) |->
        IF CharOffset(widths, k) + widths[k] \div 2 <= fill_px
        THEN "COLOR_ACTIVE" ELSE "COLOR_INACTIVE"]

NoDrawing == [start_idx |-> 0, show_lines |-> <<>>]

\* lines 263-267
Countdown(time_to_next) ==
    IF time_to_next > COUNTDOWN_MIN
    THEN (IF time_to_next > COUNTDOWN_SECONDS THEN "vocals in" ELSE "...")
    ELSE "none"

\* the loop body taking the countdown threshold for the preview test
ComposePreviewBeyondCountdown(ls, sel, t) ==
    IF sel.is_silence /\ sel.seconds_to_next > COUNTDOWN_MIN
    THEN [display |-> "preview", drawing |-> render_frame(ls, None, t),
          countdown |-> Countdown(sel.seconds_to_next)]
    ELSE IF sel.line_idx # None
         THEN [display |-> "active", drawing |-> render_frame(ls, sel.line_idx, t),
               countdown |-> "none"]
         ELSE [display |-> "title", drawing |-> NoDrawing, countdown |-> "none"]

\* lines 257-273: what the loop body draws for the selector result sel
Compose(ls, sel, t) ==
    IF sel.is_silence /\ sel.seconds_to_next > 0
    THEN [display |-> "preview", drawing |-> render_frame(ls, None, t),
          countdown |-> Countdown(sel.seconds_to_next)]
    ELSE IF sel.line_idx # None
         THEN [display |-> "active", drawing |-> render_frame(ls, sel.line_idx, t),
               countdown |-> "none"]
         ELSE [display |-> "title", drawing |-> NoDrawing, countdown |-> "none"]

NoFrame == [display |-> "none", drawing |-> NoDrawing, countdown |-> "none"]

---------------------------------------------------------------------------
(* SegSpec: segment_lines on bounded inputs, one loop iteration per step *)

\* start/end make the records distinct and include out-of-order timestamps
SegPool ==
    { Word(<<"a">>, 0, 1), Word(<<" ", "b", "b", "\t">>, 5, 6), Word(<<" ", " ">>, 2, 2),
      Word(<<>>, 3, 3), Word(<<"c", "c", "c", "c">>, 1, 4) }

NoProc == [opened |-> FALSE, stdin_closed |-> FALSE, waited |-> FALSE,
           returncode |-> None]

RenderIdle ==
    /\ pc = "idle"
    /\ files = [words_json |-> FALSE, with_vocals |-> FALSE, instrumental |-> FALSE]
    /\ words = <<>>
    /\ audio_src = "none"
    /\ duration = 0
    /\ total_frames = 0
    /\ lines = <<>>
    /\ fn = 0
    /\ proc = NoProc
    /\ written = <<>>
    /\ error = "none"

WipeIdle ==
    /\ w_word = Word(<<>>, 0, 0)
    /\ w_widths = <<>>
    /\ w_pw = 0
    /\ w_t = 0
    /\ w_drawn = <<>>
    /\ w_pc = "idle"

FrameIdle ==
    /\ q_words = <<>>
    /\ q_lines = <<>>
    /\ q_t = 0
    /\ q_sel = NoSelection
    /\ q_frame = NoFrame
    /\ q_pc = "idle"

SegIdle ==
    /\ seg_words = <<>>
    /\ max_chars = DEFAULT_MAX_CHARS
    /\ max_words = DEFAULT_MAX_WORDS
    /\ seg_i = 0
    /\ seg = SegStart
    /\ seg_pc = "idle"
    /\ seg_result = <<>>

SegInit ==
    /\ seg_words \in SeqsUpTo(SegPool, MaxSegWords)
    /\ max_chars \in 1..MaxCharsBound
    /\ max_words \in 1..MaxWordsBound
    /\ seg_i = 0
    /\ seg = SegStart
    /\ seg_pc = "loop"
    /\ seg_result = <<>>
    /\ RenderIdle
    /\ FrameIdle
    /\ WipeIdle

SegIterate ==
    /\ seg_pc = "loop"
    /\ seg_i < Len(seg_words)
    /\ seg' = SegStep(seg, seg_words[seg_i + 1], max_chars, max_words)
    /\ seg_i' = seg_i + 1
    /\ UNCHANGED <<seg_words, max_chars, max_words, seg_pc, seg_result, renderVars, frameVars,
                   wipeVars>>

SegReturn ==
    /\ seg_pc = "loop"
    /\ seg_i = Len(seg_words)
    /\ seg_result' = SegFinish(seg)
    /\ seg_pc' = "returned"
    /\ UNCHANGED <<seg_words, max_chars, max_words, seg_i, seg, renderVars, frameVars,
                   wipeVars>>

SegNext == SegIterate \/ SegReturn

SegSpec == SegInit /\ [][SegNext]_vars

---------------------------------------------------------------------------
(* Claims about segment_lines (SegSpec) *)

RECURSIVE Concat(_)
Concat(ls) == IF ls = <<>> THEN <<>> ELSE Head(ls) \o Concat(Tail(ls))

IsBlank(w) == \A i \in 1..Len(w.word) : w.word[i] \in Whitespace

NonBlank(ws) == SelectSeq(ws, LAMBDA w : ~IsBlank(w))

RECURSIVE TrimmedChars(_)
TrimmedChars(ws) ==
    IF ws = <<>> THEN 0 ELSE Len(strip(Head(ws).word)) + TrimmedChars(Tail(ws))

\* trimmed word lengths plus one separator between consecutive words
Projection(ws) == TrimmedChars(ws) + (Len(ws) - 1)

\* C1: the words of the returned Lines, concatenated in Line order, are the
\* input words in input order with the blank-after-trimming words removed
\* (so each remaining word is in exactly one Line, none twice, none moved);
\* the same holds of the closed lines plus the open line after every
\* iteration.
C1_SegmentPreservesOrder ==
    /\ seg_pc = "loop" =>
          Concat(seg.lines) \o seg.current = NonBlank(SubSeq(seg_words, 1, seg_i))
    /\ seg_pc = "returned" => Concat(seg_result) = NonBlank(seg_words)

C1_Witness ==
    /\ seg_pc = "returned"
    /\ Len(seg_result) >= 2
    /\ Len(NonBlank(seg_words)) < Len(seg_words)
    /\ \E i \in 1..Len(seg_result) : Len(seg_result[i]) >= 2
    /\ LET out == Concat(seg_result)
       IN  \E i \in 1..Len(out) - 1 : out[i + 1].start < out[i].start

\* C2: no returned Line is empty and none has more than max_words words.
C2_LinesNonEmptyWithinMaxWords ==
    seg_pc = "returned" =>
        \A i \in 1..Len(seg_result) :
            Len(seg_result[i]) >= 1 /\ Len(seg_result[i]) <= max_words

C2_Witness ==
    /\ seg_pc = "returned"
    /\ max_words >= 2
    /\ Len(seg_result) >= 2
    /\ Len(seg_result[1]) = max_words
    /\ Projection(seg_result[1] \o <<seg_result[2][1]>>) <= max_chars

\* C3: in every Line, closed, open or returned, each word but the first was
\* appended with a projected character count of at most max_chars: every
\* prefix of two or more words projects to at most max_chars, so only a
\* one-word Line can be longer than max_chars.
PrefixesFit(line) ==
    \A k \in 2..Len(line) : Projection(SubSeq(line, 1, k)) <= max_chars

C3_ProjectionWithinMaxChars ==
    /\ \A i \in 1..Len(seg.lines) : PrefixesFit(seg.lines[i])
    /\ PrefixesFit(seg.current)
    /\ seg.chars = (IF seg.current = <<>> THEN 0 ELSE Projection(seg.current))
    /\ \A i \in 1..Len(seg_result) : PrefixesFit(seg_result[i])

C3_Witness ==
    /\ seg_pc = "returned"
    /\ \E i \in 1..Len(seg_result) :
          Len(seg_result[i]) = 1 /\ Projection(seg_result[i]) > max_chars
    /\ \E i \in 1..Len(seg_result) :
          Len(seg_result[i]) >= 2 /\ Projection(seg_result[i]) = max_chars

---------------------------------------------------------------------------
(* FrameSpec: one pass of the frame loop body (select, then compose) over  *)
(* bounded timelines, at every t of 0..MaxT and at t = 1.0 s               *)

\* Words obey the data model's 0 <= start <= end; their order is free.
TimedPool ==
    { Word(<<"a">>, 5, 10), Word(<<"b">>, 10, 12), Word(<<"c">>, 60, 60),
      Word(<<"d">>, 55, 70), Word(<<" ">>, 0, 0) }

\* sing [0.0, 0.5], a [0.5, 0.9], song [0.9, 1.6]
ExampleWords ==
    << Word(<<"s", "i", "n", "g">>, 0, TicksPerSec \div 2),
       Word(<<"a">>, TicksPerSec \div 2, (9 * TicksPerSec) \div 10),
       Word(<<"s", "o", "n", "g">>, (9 * TicksPerSec) \div 10, (16 * TicksPerSec) \div 10) >>

\* Timelines of more than MAX_LINES lines: words 0.01 s apart, then a pause
\* before the last LongTail words; every prefix of at least MAX_LINES words.
LongWords ==
    [i \in 1..(MAX_LINES + 1 + LongTail) |->
        IF i <= MAX_LINES + 1
        THEN Word(<<"w">>, 2 * (i - 1), 2 * (i - 1) + 1)
        ELSE Word(<<"w">>, 60 + 4 * (i - MAX_LINES - 2), 62 + 4 * (i - MAX_LINES - 2))]

LongTimelines == { SubSeq(LongWords, 1, n) : n \in MAX_LINES..Len(LongWords) }

ExampleMaxChars == DEFAULT_MAX_CHARS + 4
ExampleMaxWords == DEFAULT_MAX_WORDS + 1

FrameInit ==
    /\ \/ /\ q_words \in SeqsUpTo(TimedPool, MaxTimedWords)
          /\ \E mw \in 1..2 : q_lines = segment_lines(q_words, DEFAULT_MAX_CHARS, mw)
       \/ /\ q_words = ExampleWords
          /\ q_lines = segment_lines(q_words, ExampleMaxChars, ExampleMaxWords)
       \/ /\ q_words \in LongTimelines
          /\ \E mw \in 1..2 : q_lines = segment_lines(q_words, DEFAULT_MAX_CHARS, mw)
    /\ q_t \in (0..MaxT) \cup {TicksPerSec}
    /\ q_sel = NoSelection
    /\ q_frame = NoFrame
    /\ q_pc = "select"
    /\ SegIdle
    /\ RenderIdle
    /\ WipeIdle

\* line 257
Select ==
    /\ q_pc = "select"
    /\ q_sel' = get_active_line_for_time(q_lines, q_t)
    /\ q_pc' = "compose"
    /\ UNCHANGED <<q_words, q_lines, q_t, q_frame, segVars, renderVars,
                   wipeVars>>

\* lines 259-273
ComposeFrame ==
    /\ q_pc = "compose"
    /\ q_frame' = Compose(q_lines, q_sel, q_t)
    /\ q_pc' = "done"
    /\ UNCHANGED <<q_words, q_lines, q_t, q_sel, segVars, renderVars,
                   wipeVars>>

FrameNext == Select \/ ComposeFrame

FrameSpec == FrameInit /\ [][FrameNext]_vars

---------------------------------------------------------------------------
(* Claims about the selector and the compositor (FrameSpec) *)

Selected == q_pc \in {"compose", "done"}

\* C4: whenever the selector returns an active line index idx,
\* lines[idx].first.start <= t <= lines[idx].last.end + 0.1 s.
C4_ActiveLineSpanContainsT ==
    (Selected /\ q_sel.line_idx # None) =>
        /\ q_sel.line_idx \in 0..(Len(q_lines) - 1)
        /\ LET line == q_lines[q_sel.line_idx + 1]
           IN  /\ line[1].start <= q_t
               /\ 10 * q_t <= 10 * line[Len(line)].end + TicksPerSec

C4_Witness ==
    /\ Selected
    /\ q_sel.line_idx >= 1
    /\ LET line == q_lines[q_sel.line_idx + 1]
       IN  q_t > line[Len(line)].end /\ q_t > line[1].start

TitleCardState ==
    /\ q_sel = [line_idx |-> None, is_silence |-> TRUE, seconds_to_next |-> 0]
    /\ q_frame.display = "title"
    /\ q_frame.drawing.show_lines = <<>>

ActiveLinePaints ==
    LET shown == q_frame.drawing.show_lines
    IN  { shown[i].paint : i \in { j \in 1..Len(shown) :
                                     shown[j].line_idx = q_sel.line_idx } }

ClampedNum(w, t) ==
    LET d == IF 100 * (w.end - w.start) >= TicksPerSec
             THEN w.end - w.start ELSE TicksPerSec \div 100
        n == t - w.start
    IN  [n |-> IF n < 0 THEN 0 ELSE IF n > d THEN d ELSE n, d |-> d]

ToneMatches(w, p, t) ==
    /\ w.end <= t => p.color = "COLOR_SUNG"
    /\ (w.start <= t /\ t < w.end) =>
          /\ p.color = "COLOR_ACTIVE"
          /\ p.den > 0
          /\ p.num * ClampedNum(w, t).d = ClampedNum(w, t).n * p.den
    /\ t < w.start => p.color = "COLOR_INACTIVE"

\* C10: on the active line a word is drawn sung (COLOR_SUNG) when
\* word.end <= t, with the progressive fill of fraction
\* clamp((t - start) / max(end - start, 0.01), 0, 1) when start <= t < end,
\* and upcoming (COLOR_INACTIVE, the source's "white -- upcoming") when
\* t < start; for sing/a/song the fractions are 0.4 at t = 0.2 and 0.14
\* (to two decimals) at t = 1.0.
C10_ActiveLineWordTones ==
    (q_pc = "done" /\ q_frame.display = "active") =>
        /\ \A paint \in ActiveLinePaints :
              LET line == q_lines[q_sel.line_idx + 1]
              IN  /\ Len(paint) = Len(line)
                  /\ \A k \in 1..Len(line) : ToneMatches(line[k], paint[k], q_t)
        /\ ActiveLinePaints # {}
        /\ (q_words = ExampleWords /\ 10 * q_t = 2 * TicksPerSec) =>
              /\ Len(q_lines) = 1
              /\ \A paint \in ActiveLinePaints :
                    /\ paint[1].color = "COLOR_ACTIVE"
                    /\ 10 * paint[1].num = 4 * paint[1].den
                    /\ paint[2].color = "COLOR_INACTIVE"
                    /\ paint[3].color = "COLOR_INACTIVE"
        /\ (q_words = ExampleWords /\ q_t = TicksPerSec) =>
              /\ Len(q_lines) = 1
              /\ \A paint \in ActiveLinePaints :
                    /\ paint[1].color = "COLOR_SUNG"
                    /\ paint[2].color = "COLOR_SUNG"
                    /\ paint[3].color = "COLOR_ACTIVE"
                    /\ 135 * paint[3].den <= 1000 * paint[3].num
                    /\ 1000 * paint[3].num < 145 * paint[3].den

C10_Witness ==
    /\ q_pc = "done"
    /\ q_frame.display = "active"
    /\ q_words = ExampleWords
    /\ q_t = TicksPerSec
    /\ \E paint \in ActiveLinePaints : paint[3].color = "COLOR_ACTIVE"

---------------------------------------------------------------------------
(* Spec: __main__ and render_video.  The environment decides which files   *)
(* exist, what words.json holds, the probed duration, whether the encoder  *)
(* still reads its pipe when a frame is written, and its exit status.      *)

LongText == [i \in 1..17 |-> "x"]

\* Words obey the data model's 0 <= start <= end; their order is free.
RenderPool ==
    { Word(<<" ", "l", "a">>, 0, 5), Word(LongText, 60, 62), Word(LongText, 20, 30),
      Word(<<" ", " ">>, 0, 0) }

Durations == {0, 35, MaxDuration}

\* a normal exit, an error exit, a death by signal
ReturnCodes == {0, 1, 0 - 9}

\* the frame count rounded up instead of truncated
TotalFramesRoundedUp(d) == (d * FPS + TicksPerSec - 1) \div TicksPerSec

\* line 215: int(duration * FPS)
TotalFrames(d) == (d * FPS) \div TicksPerSec

\* line 253: t = fn / FPS
FrameTime(n) == (n * TicksPerSec) \div FPS

\* the status test taking only a negative status for a failure
ExitStatusFailsOnlyOnSignal(rc) == rc < 0

\* line 281
ExitStatusFails(rc) == rc # 0

\* lines 253-275: the frame of index n, as handed to proc.stdin.write
Frame(ls, n) ==
    LET t == FrameTime(n)
    IN  [fn |-> n, t |-> t, image |-> Compose(ls, get_active_line_for_time(ls, t), t)]

Init ==
    /\ pc = "main"
    /\ files \in [words_json : BOOLEAN, with_vocals : BOOLEAN, instrumental : BOOLEAN]
    /\ words \in (IF files.words_json THEN SeqsUpTo(RenderPool, MaxWords) ELSE {<<>>})
    /\ audio_src = "none"
    /\ duration = 0
    /\ total_frames = 0
    /\ lines = <<>>
    /\ fn = 0
    /\ proc = NoProc
    /\ written = <<>>
    /\ error = "none"
    /\ SegIdle
    /\ FrameIdle
    /\ WipeIdle

\* a call of render_video starts with fresh locals
EnterRenderVideo(src) ==
    /\ audio_src' = src
    /\ pc' = "probe"
    /\ duration' = 0
    /\ total_frames' = 0
    /\ lines' = <<>>
    /\ fn' = 0
    /\ proc' = NoProc
    /\ written' = <<>>

\* lines 290-291
MainWordsMissing ==
    /\ pc = "main"
    /\ ~files.words_json
    /\ error' = "FileNotFoundError"
    /\ pc' = "raised"
    /\ UNCHANGED <<files, words, audio_src, duration, total_frames, lines, fn, proc,
                   written, segVars, frameVars,
                   wipeVars>>

\* lines 293-298
MainRender ==
    /\ pc = "main"
    /\ files.words_json
    /\ EnterRenderVideo(IF files.with_vocals THEN "with_vocals" ELSE "instrumental")
    /\ UNCHANGED <<files, words, error, segVars, frameVars,
                   wipeVars>>

\* lines 214-215 and 91-97: ffprobe prints no duration for a missing file
ProbeFails ==
    /\ pc = "probe"
    /\ ~files[audio_src]
    /\ error' = "ValueError"
    /\ pc' = "raised"
    /\ UNCHANGED <<files, words, audio_src, duration, total_frames, lines, fn, proc,
                   written, segVars, frameVars,
                   wipeVars>>

Probe ==
    /\ pc = "probe"
    /\ files[audio_src]
    /\ \E d \in Durations :
          /\ duration' = d
          /\ total_frames' = TotalFrames(d)
    /\ pc' = "segment"
    /\ UNCHANGED <<files, words, audio_src, lines, fn, proc, written, error,
                   segVars, frameVars,
                   wipeVars>>

\* line 236
Segment ==
    /\ pc = "segment"
    /\ lines' = segment_lines(words, DEFAULT_MAX_CHARS, DEFAULT_MAX_WORDS)
    /\ pc' = "popen"
    /\ UNCHANGED <<files, words, audio_src, duration, total_frames, fn, proc,
                   written, error, segVars, frameVars,
                   wipeVars>>

\* line 250
Popen ==
    /\ pc = "popen"
    /\ proc' = [opened |-> TRUE, stdin_closed |-> FALSE, waited |-> FALSE,
                returncode |-> None]
    /\ fn' = 0
    /\ pc' = "loop"
    /\ UNCHANGED <<files, words, audio_src, duration, total_frames, lines,
                   written, error, segVars, frameVars,
                   wipeVars>>

\* lines 252-275: one iteration, the write accepted
WriteFrame ==
    /\ pc = "loop"
    /\ fn < total_frames
    /\ written' = Append(written, Frame(lines, fn))
    /\ fn' = fn + 1
    /\ UNCHANGED <<pc, files, words, audio_src, duration, total_frames, lines,
                   proc, error, segVars, frameVars,
                   wipeVars>>

\* line 275: the encoder has exited and the write raises; nothing catches it
WriteFrameBrokenPipe ==
    /\ pc = "loop"
    /\ fn < total_frames
    /\ error' = "BrokenPipeError"
    /\ pc' = "raised"
    /\ UNCHANGED <<files, words, audio_src, duration, total_frames, lines, fn,
                   proc, written, segVars, frameVars,
                   wipeVars>>

\* line 279
CloseStdin ==
    /\ pc = "loop"
    /\ fn >= total_frames
    /\ proc' = [proc EXCEPT !.stdin_closed = TRUE]
    /\ pc' = "wait"
    /\ UNCHANGED <<files, words, audio_src, duration, total_frames, lines, fn,
                   written, error, segVars, frameVars,
                   wipeVars>>

\* lines 280-285
Wait ==
    /\ pc = "wait"
    /\ \E rc \in ReturnCodes :
          /\ proc' = [proc EXCEPT !.waited = TRUE, !.returncode = rc]
          /\ IF ExitStatusFails(rc)
             THEN error' = "RuntimeError" /\ pc' = "raised"
             ELSE error' = error /\ pc' = "returned"
    /\ UNCHANGED <<files, words, audio_src, duration, total_frames, lines, fn,
                   written, segVars, frameVars,
                   wipeVars>>

\* lines 301-303
MainRenderInstrumental ==
    /\ pc = "returned"
    /\ files.instrumental /\ audio_src # "instrumental"
    /\ EnterRenderVideo("instrumental")
    /\ UNCHANGED <<files, words, error, segVars, frameVars,
                   wipeVars>>

\* lines 305-307
MainComplete ==
    /\ pc = "returned"
    /\ ~(files.instrumental /\ audio_src # "instrumental")
    /\ pc' = "complete"
    /\ UNCHANGED <<files, words, audio_src, duration, total_frames, lines, fn,
                   proc, written, error, segVars, frameVars,
                   wipeVars>>

Next ==
    \/ MainWordsMissing
    \/ MainRender
    \/ ProbeFails
    \/ Probe
    \/ Segment
    \/ Popen
    \/ WriteFrame
    \/ WriteFrameBrokenPipe
    \/ CloseStdin
    \/ Wait
    \/ MainRenderInstrumental
    \/ MainComplete

Spec == Init /\ [][Next]_vars

---------------------------------------------------------------------------
(* Claims about render_video (Spec) *)

InRenderVideo == pc \in {"segment", "popen", "loop", "wait", "returned", "complete"}

LoopCompleted == pc \in {"wait", "returned", "complete"} \/ proc.stdin_closed

\* C5: the frames written to the pipe are frame 0, 1, 2, ... in this order,
\* frame i carrying t = i / FPS, never more than total_frames of them; when
\* the loop has completed they are exactly total_frames, and total_frames is
\* floor(duration * FPS).
C5_FramesWrittenInIndexOrder ==
    /\ \A i \in 1..Len(written) :
          /\ written[i].fn = i - 1
          /\ written[i].t * FPS = (i - 1) * TicksPerSec
    /\ Len(written) <= total_frames
    /\ pc = "loop" => Len(written) = fn
    /\ LoopCompleted => Len(written) = total_frames
    /\ InRenderVideo =>
          /\ total_frames * TicksPerSec <= duration * FPS
          /\ duration * FPS < (total_frames + 1) * TicksPerSec

C5_Witness ==
    /\ pc = "returned"
    /\ Len(written) >= 3
    /\ (duration * FPS) % TicksPerSec # 0
    /\ \E i \in 1..Len(written) : written[i].image.display = "active"

\* C6: with an empty transcript the encoder pipe is never opened, no frame
\* is written and the render does not return normally.
C6_EmptyTranscriptAbortsBeforePipe ==
    (files.words_json /\ words = <<>>) =>
        /\ ~proc.opened
        /\ written = <<>>
        /\ pc \notin {"returned", "complete"}

\* C8: the pipe is closed only once all total_frames frames are written,
\* the encoder is waited for only after the pipe is closed, and render_video
\* raises after the wait exactly when the exit status is not zero.
C8_CloseThenWaitThenCheckStatus ==
    /\ proc.stdin_closed => Len(written) = total_frames
    /\ proc.waited => proc.stdin_closed
    /\ pc = "wait" => (proc.stdin_closed /\ ~proc.waited)
    /\ proc.waited =>
          /\ proc.returncode # 0 => (pc = "raised" /\ error = "RuntimeError")
          /\ proc.returncode = 0 => (pc \in {"returned", "complete"} /\ error = "none")
    /\ error = "RuntimeError" => (proc.waited /\ proc.returncode # 0)
    /\ pc \in {"returned", "complete"} => (proc.waited /\ proc.returncode = 0)

C8_Witness ==
    /\ pc = "raised"
    /\ error = "RuntimeError"
    /\ proc.returncode = 1
    /\ Len(written) >= 3

\* C9: whenever control has left render_video after the encoder process was
\* opened, by return or by exception, the pipe has been closed.
C9_PipeClosedOnEveryExit ==
    (pc \in {"raised", "returned", "complete"} /\ proc.opened) => proc.stdin_closed

---------------------------------------------------------------------------
(* Claims about the window and the display state (FrameSpec) *)

Composed == q_pc = "done"

SomeSpanContainsT ==
    \E i \in 1..Len(q_lines) :
        /\ q_lines[i][1].start <= q_t
        /\ 10 * q_t <= 10 * q_lines[i][Len(q_lines[i])].end + TicksPerSec

\* indexes, counted from 0, of the lines that start strictly after t
StartingAfterT == { i \in 0..(Len(q_lines) - 1) : q_lines[i + 1][1].start > q_t }

LowestOf(S) == CHOOSE i \in S : \A j \in S : i <= j

ShownIndexes ==
    { q_frame.drawing.show_lines[i].line_idx :
        i \in 1..Len(q_frame.drawing.show_lines) }

\* C12: with an active line, the window starts at
\* max(0, active_idx - MAX_LINES / 2), moved back so that it ends at the
\* last line when there are at least MAX_LINES lines; it holds exactly
\* min(MAX_LINES, total_lines) consecutive lines, the active one among them.
C12_WindowCentredOnActiveLine ==
    (Composed /\ q_frame.display = "active") =>
        LET total == Len(q_lines)
            active == q_sel.line_idx
            centred == IF active - MAX_LINES \div 2 > 0
                       THEN active - MAX_LINES \div 2 ELSE 0
            expected == IF total >= MAX_LINES /\ centred + MAX_LINES > total
                        THEN total - MAX_LINES ELSE centred
            shown == q_frame.drawing.show_lines
        IN  /\ q_frame.drawing.start_idx = expected
            /\ total >= MAX_LINES => expected + MAX_LINES <= total
            /\ Len(shown) = (IF total < MAX_LINES THEN total ELSE MAX_LINES)
            /\ \A i \in 1..Len(shown) : shown[i].line_idx = expected + i - 1
            /\ active \in ShownIndexes

C12_Witness ==
    /\ Composed
    /\ q_frame.display = "active"
    /\ Len(q_lines) > MAX_LINES + 1
    /\ q_sel.line_idx = MAX_LINES \div 2 + 1
    /\ q_frame.drawing.start_idx = 1

\* C13: when no line's span contains t the selector returns no active line
\* and, if some line starts after t, seconds_to_next = start - t > 0 for the
\* first such line in timeline order; if none does, seconds_to_next = 0.
C13_SecondsToNextLine ==
    (Selected /\ ~SomeSpanContainsT) =>
        /\ q_sel.line_idx = None
        /\ StartingAfterT # {} =>
              /\ q_sel.seconds_to_next =
                    q_lines[LowestOf(StartingAfterT) + 1][1].start - q_t
              /\ q_sel.seconds_to_next > 0
        /\ StartingAfterT = {} => q_sel.seconds_to_next = 0

C13_Witness ==
    /\ Selected
    /\ ~SomeSpanContainsT
    /\ Cardinality(StartingAfterT) >= 2
    /\ \E i \in StartingAfterT :
          q_lines[i + 1][1].start < q_lines[LowestOf(StartingAfterT) + 1][1].start
    /\ q_sel.seconds_to_next > 0

\* C14: in a silence frame (no active line, some line starting after t) the
\* lines drawn as the preview include the next line, the first line that
\* starts after t.
C14_PreviewShowsNextLine ==
    (Composed /\ ~SomeSpanContainsT /\ StartingAfterT # {}) =>
        /\ q_frame.display = "preview"
        /\ LowestOf(StartingAfterT) \in ShownIndexes

---------------------------------------------------------------------------
(* Claims about the active line across the frame loop (Spec) *)

LineStartsNonDecreasing ==
    \A i \in 1..(Len(lines) - 1) : lines[i][1].start <= lines[i + 1][1].start

\* line_idx of the selector call made for the i-th written frame (line 257)
ActiveIdxOfFrame(i) == get_active_line_for_time(lines, written[i].t).line_idx

\* C15: when the lines' start times are non-decreasing in timeline order,
\* the active line index never decreases from a frame to a later frame of
\* the same render.
C15_ActiveIndexNeverDecreases ==
    LineStartsNonDecreasing =>
        \A a \in 1..Len(written) : \A b \in a..Len(written) :
            (ActiveIdxOfFrame(a) # None /\ ActiveIdxOfFrame(b) # None)
                => ActiveIdxOfFrame(a) <= ActiveIdxOfFrame(b)

C15_Witness ==
    /\ pc = "returned"
    /\ Len(lines) >= 2
    /\ LineStartsNonDecreasing
    /\ \E a \in 1..Len(written) : \E b \in a..Len(written) :
          /\ ActiveIdxOfFrame(a) = 0
          /\ lines[2][1].start <= written[a].t
          /\ ActiveIdxOfFrame(b) = 1
          /\ written[b].image.display = "active"

---------------------------------------------------------------------------
(* WipeSpec: one word of the active line drawn at increasing t, from its   *)
(* start until it is sung, under bounded font metrics                      *)

WipeWords ==
    { Word(<<"a">>, 0, 2), Word(<<" ", "l", "a">>, 0, 6), Word(<<"l", "a">>, 3, 10) }

RECURSIVE SumWidths(_)
SumWidths(ws) == IF ws = <<>> THEN 0 ELSE Head(ws) + SumWidths(Tail(ws))

\* txt = w["word"].strip() + " " (line 146)
DrawnText(w) == Append(strip(w.word), " ")

WipeInit ==
    /\ w_word \in WipeWords
    /\ w_widths \in [1..Len(DrawnText(w_word)) -> 1..MaxCharWidth]
    /\ w_pw \in { SumWidths(w_widths) + k : k \in {0 - 1, 0, 1} }
    /\ w_t = w_word.start
    /\ w_drawn = <<>>
    /\ w_pc = "wipe"
    /\ SegIdle
    /\ RenderIdle
    /\ FrameIdle

\* lines 169-190 at the current t, then a later frame time
WipeDraw ==
    /\ w_pc = "wipe"
    /\ LET p == ActiveWordPaint(w_word, w_t)
           fill_px == FillPx(w_pw, p.num, p.den)
       IN  /\ p.color = "COLOR_ACTIVE"
           /\ w_drawn' = Append(w_drawn, [t |-> w_t, fill_px |-> fill_px,
                                          chars |-> CharColors(w_widths, fill_px)])
    /\ \E dt \in 1..2 : w_t' = w_t + dt
    /\ UNCHANGED <<w_word, w_widths, w_pw, w_pc, segVars, renderVars, frameVars>>

\* lines 166-168: the word has ended
WipeSung ==
    /\ w_pc = "wipe"
    /\ ActiveWordPaint(w_word, w_t).color = "COLOR_SUNG"
    /\ w_pc' = "sung"
    /\ UNCHANGED <<w_word, w_widths, w_pw, w_t, w_drawn, segVars, renderVars, frameVars>>

WipeNext == WipeDraw \/ WipeSung

WipeSpec == WipeInit /\ [][WipeNext]_vars

---------------------------------------------------------------------------
(* Claims about the progressive fill (WipeSpec) *)

ActiveChars(d) == Cardinality({ k \in 1..Len(d.chars) : d.chars[k] = "COLOR_ACTIVE" })

\* the characters whose midpoint offset is within fill of the left edge
WithinFill(widths, fill) ==
    { k \in 1..Len(widths) :
        SumWidths(SubSeq(widths, 1, k - 1)) + widths[k] \div 2 <= fill }

\* C11: for a fixed active word with fixed character widths, the number of
\* characters drawn in the active colour, those whose midpoint offset is
\* within int(pw * frac) of the word's left edge, never decreases as t
\* increases from word.start towards word.end.
C11_FillNeverRecedes ==
    /\ \A i \in 1..Len(w_drawn) :
          { k \in 1..Len(w_drawn[i].chars) : w_drawn[i].chars[k] = "COLOR_ACTIVE" }
              = WithinFill(w_widths, w_drawn[i].fill_px)
    /\ \A i \in 1..Len(w_drawn) : \A j \in i..Len(w_drawn) :
          /\ w_drawn[i].t <= w_drawn[j].t
          /\ ActiveChars(w_drawn[i]) <= ActiveChars(w_drawn[j])

C11_Witness ==
    /\ w_pc = "sung"
    /\ Len(w_drawn) >= 3
    /\ ActiveChars(w_drawn[1]) = 0
    /\ ActiveChars(w_drawn[2]) >= 1
    /\ ActiveChars(w_drawn[Len(w_drawn)]) > ActiveChars(w_drawn[2])

====
